---- MODULE Spec2Model ----
(***************************************************************************)
(* Particle life (src/src/lib.rs): particles on the periodic square, the   *)
(* plugin that installs them, and the two per-frame systems                *)
(* update_position and update_velocity.                                    *)
(*                                                                         *)
(* Number encoding.  f32 values are fixed-point integers:                  *)
(*   - positions, distances, radii, matrix entries and unit directions are *)
(*     counted in units of 1/ONE (ONE stands for 1.0, so 0.01 is 1);       *)
(*   - the Attraction values returned by attraction_factor are counted in  *)
(*     units of 1/(ONE*ONE), so that the product of a distance and a       *)
(*     matrix entry is exact;                                              *)
(*   - velocities are counted in units of 1/(ONE*ONE*ONE), so that         *)
(*     delta * attraction * direction is exact;                            *)
(*   - delta is a whole number of time units.                              *)
(* Only division and the square root round, to the nearest unit, as they   *)
(* round to the nearest representable value in f32.                        *)
(***************************************************************************)
EXTENDS Integers, Sequences, FiniteSets, TLC

VARIABLES
    plugin,      \* the ParticleLifePlugin value handed to build (never changes)
    status,      \* "new", "built", "running", "startup_panic", "tick_panic"
    particles,   \* the world's particles: sequence of [position, velocity, color]
    resources,   \* inserted resources: color_attractions, attraction_radius, colors
    delta,       \* Time::delta_seconds of the current frame
    pending,     \* systems of the current frame that have not run yet
    ticks,       \* number of frames started
    pairLog,     \* what the last update_velocity computed, one record per pair visited
    preWrap,     \* the positions the last update_position had before wrapping
    integratedWith  \* the velocities the last update_position read

vars == <<plugin, status, particles, resources, delta, pending, ticks, pairLog, preWrap,
          integratedWith>>

---------------------------------------------------------------------------
(* Bounds of the model *)

MaxParticles == 3
MaxTicks == 1
MaxDelta == 1

(* 1.0 in fixed point; 0.01, the distance floor, is then MinDistance *)
ONE == 100
MinDistance == 1

AttrOne == ONE * ONE
VelOne == ONE * ONE * ONE

---------------------------------------------------------------------------
(* Arithmetic helpers *)

Abs(x) == IF x < 0 THEN -x ELSE x

Sign(x) == IF x < 0 THEN -1 ELSE IF x > 0 THEN 1 ELSE 0

Max(a, b) == IF a >= b THEN a ELSE b

(* division rounded to the nearest integer, b > 0 *)
RoundDiv(a, b) == Sign(a) * ((2 * Abs(a) + b) \div (2 * b))

RECURSIVE SqrtSearch(_, _, _)
SqrtSearch(n, lo, hi) ==
    IF lo >= hi THEN lo
    ELSE LET mid == (lo + hi + 1) \div 2
         IN  IF mid * mid <= n THEN SqrtSearch(n, mid, hi)
             ELSE SqrtSearch(n, lo, mid - 1)

(* square root rounded to the nearest integer *)
Sqrt(n) ==
    LET r == SqrtSearch(n, 0, 8 * ONE)
    IN  IF n - r * r > r THEN r + 1 ELSE r

Vec2(x, y) == [x |-> x, y |-> y]

(* Vec2::length *)
Length(v) == Sqrt(v.x * v.x + v.y * v.y)

(* f32::round of x / (2 * ONE): to the nearest integer, halves away from zero *)
RoundHalf(x) == Sign(x) * ((Abs(x) + ONE) \div (2 * ONE))

---------------------------------------------------------------------------
(* ToroidalGeometry *)

(* lib.rs 135-136: x - 2.0 * f32::round(x / 2.0) *)
wrap(x) == x - 2 * ONE * RoundHalf(x)

(* lib.rs 179-188: tip - base, minus 2.0 on every axis whose magnitude exceeds 1.0 *)
toroidal_difference(base, tip) ==
    LET dx == tip.x - base.x
        dy == tip.y - base.y
    IN  Vec2(IF Abs(dx) > ONE THEN dx - 2 * ONE ELSE dx,
             IF Abs(dy) > ONE THEN dy - 2 * ONE ELSE dy)

(* lib.rs 173-176 *)
toroidal_distance(position_a, position_b) ==
    Length(toroidal_difference(position_a, position_b))

(* Vec2::try_normalize().unwrap_or(Vec2 { x: 1.0, y: 0.0 }), lib.rs 164-166 *)
NormalizeOr(v) ==
    IF v.x = 0 /\ v.y = 0 THEN Vec2(ONE, 0)
    ELSE LET len == Length(v)
         IN  Vec2(RoundDiv(v.x * ONE, len), RoundDiv(v.y * ONE, len))

---------------------------------------------------------------------------
(* AttractionModel *)

(* color_attractions.0[i][j] is in range (colours count from 0) *)
InMatrix(m, i, j) == i + 1 <= Len(m) /\ j + 1 <= Len(m[i + 1])

(* attraction_factor with the repulsion band's test written d < rmin *)
attraction_factor_strict(distance, color_a, color_b, color_attractions, rmin, rmax) ==
    IF distance < rmin THEN
        LET f == RoundDiv(distance * AttrOne, rmin) - AttrOne
        IN  [panic |-> FALSE, a_by_b |-> f, b_by_a |-> f]
    ELSE IF distance <= rmax THEN
        IF InMatrix(color_attractions, color_a, color_b)
           /\ InMatrix(color_attractions, color_b, color_a)
        THEN LET distance_scalar == Abs(distance - (rmin + rmax) \div 2)
             IN  [panic |-> FALSE,
                  a_by_b |-> distance_scalar * color_attractions[color_a + 1][color_b + 1],
                  b_by_a |-> distance_scalar * color_attractions[color_b + 1][color_a + 1]]
        ELSE [panic |-> TRUE, a_by_b |-> 0, b_by_a |-> 0]
    ELSE [panic |-> FALSE, a_by_b |-> 0, b_by_a |-> 0]

(* lib.rs 206-230.  panic: a matrix index was out of range. *)
attraction_factor(distance, color_a, color_b, color_attractions, rmin, rmax) ==
    IF distance <= rmin THEN
        LET f == RoundDiv(distance * AttrOne, rmin) - AttrOne
        IN  [panic |-> FALSE, a_by_b |-> f, b_by_a |-> f]
    ELSE IF distance <= rmax THEN
        IF InMatrix(color_attractions, color_a, color_b)
           /\ InMatrix(color_attractions, color_b, color_a)
        THEN LET peak_attraction_a_by_b == color_attractions[color_a + 1][color_b + 1]
                 peak_attraction_b_by_a == color_attractions[color_b + 1][color_a + 1]
                 peak_distance == (rmin + rmax) \div 2
                 distance_scalar == Abs(distance - peak_distance)
             IN  [panic |-> FALSE,
                  a_by_b |-> distance_scalar * peak_attraction_a_by_b,
                  b_by_a |-> distance_scalar * peak_attraction_b_by_a]
        ELSE [panic |-> TRUE, a_by_b |-> 0, b_by_a |-> 0]
    ELSE [panic |-> FALSE, a_by_b |-> 0, b_by_a |-> 0]

---------------------------------------------------------------------------
(* Integrator *)

(* lib.rs 133-137, one particle: integrate, then wrap both components *)
Integrated(p, dt) ==
    Vec2(p.position.x + RoundDiv(dt * p.velocity.x, AttrOne),
         p.position.y + RoundDiv(dt * p.velocity.y, AttrOne))

(* a position pass that loses the last particle *)
PositionPassDropping(ps, dt) ==
    [i \in 1..(Len(ps) - 1) |->
        LET q == Integrated(ps[i], dt)
        IN  [ps[i] EXCEPT !.position = Vec2(wrap(q.x), wrap(q.y))]]

(* lib.rs 133-137, every particle *)
PositionPass(ps, dt) ==
    [i \in DOMAIN ps |->
        LET q == Integrated(ps[i], dt)
        IN  [ps[i] EXCEPT !.position = Vec2(wrap(q.x), wrap(q.y))]]

RECURSIVE CombinationsFrom(_, _, _)
CombinationsFrom(i, j, n) ==
    IF i >= n THEN <<>>
    ELSE IF j > n THEN CombinationsFrom(i + 1, i + 2, n)
    ELSE <<<<i, j>>>> \o CombinationsFrom(i, j + 1, n)

RECURSIVE PermutationsFrom(_, _, _)
PermutationsFrom(i, j, n) ==
    IF i > n THEN <<>>
    ELSE IF j > n THEN PermutationsFrom(i + 1, 1, n)
    ELSE IF i = j THEN PermutationsFrom(i, j + 1, n)
    ELSE <<<<i, j>>>> \o PermutationsFrom(i, j + 1, n)

(* an iteration that yields every ordered pair of distinct entities *)
OrderedPairs(n) == PermutationsFrom(1, 1, n)

(* query.iter_combinations_mut(), lib.rs 150-151: every 2-combination of the
   n entities, in order *)
Combinations(n) == CombinationsFrom(1, 2, n)

(* lib.rs 152-169, the loop body for the pair (a, b) of ps *)
PairStep(ps, a, b, dt, color_attractions, rmin, rmax) ==
    LET position_a == ps[a].position
        position_b == ps[b].position
        distance == Max(toroidal_distance(position_a, position_b), MinDistance)
        attraction == attraction_factor(distance, ps[a].color, ps[b].color,
                                        color_attractions, rmin, rmax)
        a_to_b_direction == NormalizeOr(toroidal_difference(position_a, position_b))
        dva == Vec2(dt * attraction.a_by_b * a_to_b_direction.x,
                    dt * attraction.a_by_b * a_to_b_direction.y)
        dvb == Vec2(-(dt * attraction.b_by_a * a_to_b_direction.x),
                    -(dt * attraction.b_by_a * a_to_b_direction.y))
    IN  [panic |-> attraction.panic,
         a |-> a, b |-> b, delta |-> dt,
         color_a |-> ps[a].color, color_b |-> ps[b].color,
         position_a |-> position_a, position_b |-> position_b,
         difference |-> toroidal_difference(position_a, position_b),
         distance |-> distance,
         attraction_a_by_b |-> attraction.a_by_b,
         attraction_b_by_a |-> attraction.b_by_a,
         direction |-> a_to_b_direction,
         dva |-> dva, dvb |-> dvb]

AddVelocity(p, dv) ==
    [p EXCEPT !.velocity = Vec2(p.velocity.x + dv.x, p.velocity.y + dv.y)]

(* lib.rs 151-170, the loop over pairs k..Len(pairs): the particles, the
   records of the pairs visited and whether an index panicked *)
RECURSIVE VelocityLoop(_, _, _, _, _, _, _, _)
VelocityLoop(ps, pairs, k, log, dt, color_attractions, rmin, rmax) ==
    IF k > Len(pairs) THEN [particles |-> ps, log |-> log, panic |-> FALSE]
    ELSE LET a == pairs[k][1]
             b == pairs[k][2]
         IN  IF a = b
             THEN VelocityLoop(ps, pairs, k + 1, log, dt, color_attractions, rmin, rmax)
             ELSE LET step == PairStep(ps, a, b, dt, color_attractions, rmin, rmax)
                  IN  IF step.panic
                      THEN [particles |-> ps, log |-> log, panic |-> TRUE]
                      ELSE VelocityLoop(
                               [ps EXCEPT ![a] = AddVelocity(ps[a], step.dva),
                                          ![b] = AddVelocity(ps[b], step.dvb)],
                               pairs, k + 1, Append(log, step),
                               dt, color_attractions, rmin, rmax)

VelocityPass(ps, dt, color_attractions, rmin, rmax) ==
    VelocityLoop(ps, Combinations(Len(ps)), 1, <<>>, dt, color_attractions, rmin, rmax)

---------------------------------------------------------------------------
(* Inputs: the plugins the host may hand to build *)

Particle(px, py, vx, vy, c) ==
    [position |-> Vec2(px, py), velocity |-> Vec2(vx, vy), color |-> c]

(* positions inside [-1, 1) x [-1, 1): one on the lower boundary, one inside
   main.rs's rmin of it, one at rmin, one at rmax, and one halfway between
   rmin and rmax on the other side of the seam *)
Pool ==
    { Particle(-ONE, 0, 0, 0, 0),
      Particle(-98, 2, 0, 0, 1),
      Particle(-96, 0, 0, 0, 0),
      Particle(-60, 0, VelOne \div 2, -(VelOne \div 4), 1),
      Particle(78, 2, VelOne \div 2, 0, 0) }

ParticleLists == UNION { [1..n -> Pool] : n \in 0..MaxParticles }

Radius(rmin, rmax) == [rmin |-> rmin, rmax |-> rmax]

Matrix2 == << <<30, -5>>, <<20, 30>> >>
Matrix1 == << <<30>> >>

(* number of colours, attraction matrix, radii: main.rs's radii with a
   matching matrix; AttractionRadius::default(); rmax below rmin; a matrix
   smaller than the colour list; a colour list smaller than the matrix *)
Configs ==
    { <<2, Matrix2, Radius(4, 40)>>,
      <<2, Matrix2, Radius(0, 0)>>,
      <<2, Matrix2, Radius(40, 4)>>,
      <<2, Matrix1, Radius(4, 40)>>,
      <<1, Matrix2, Radius(4, 40)>> }

Plugins ==
    { [initial_particles |-> ps, colors |-> c[1],
       color_attractions |-> c[2], attraction_radius |-> c[3]] :
      ps \in ParticleLists, c \in Configs }

Systems == {"update_position", "update_velocity"}

---------------------------------------------------------------------------
(* The application *)

Init ==
    /\ plugin \in Plugins
    /\ status = "new"
    /\ particles = <<>>
    /\ resources = [color_attractions |-> <<>>,
                    attraction_radius |-> Radius(0, 0),
                    colors |-> 0]
    /\ delta = 0
    /\ pending = {}
    /\ ticks = 0
    /\ pairLog = <<>>
    /\ preWrap = <<>>
    /\ integratedWith = <<>>

(* world.spawn_batch(initial_particles), lib.rs 17-18 *)
spawn_batch(world, initial_particles) == world \o initial_particles

(* ParticleLifePlugin::build, lib.rs 16-42: spawns the particles and inserts
   the resources as given; it checks nothing *)
build ==
    /\ status = "new"
    /\ status' = "built"
    /\ particles' = spawn_batch(particles, plugin.initial_particles)
    /\ resources' = [color_attractions |-> plugin.color_attractions,
                     attraction_radius |-> plugin.attraction_radius,
                     colors |-> plugin.colors]
    /\ UNCHANGED <<plugin, delta, pending, ticks, pairLog, preWrap, integratedWith>>

(* materials.0[color.0] is in range for every particle, lib.rs 122-127 *)
HandlesInRange(ps, colors) == \A i \in DOMAIN ps : ps[i].color < colors

(* the startup systems, lib.rs 95-129: setup_color_materials makes one handle
   per colour and setup_mesh_and_color indexes them by each particle's colour *)
setup_mesh_and_color ==
    /\ status = "built"
    /\ status' = IF HandlesInRange(particles, resources.colors)
                 THEN "running" ELSE "startup_panic"
    /\ UNCHANGED <<plugin, particles, resources, delta, pending, ticks, pairLog, preWrap, integratedWith>>

(* a frame starts: Time gets its delta and both systems are scheduled,
   lib.rs 38-39 (no ordering between them is declared) *)
BeginFrame(dt) ==
    /\ status = "running"
    /\ pending = {}
    /\ ticks < MaxTicks
    /\ delta' = dt
    /\ pending' = Systems
    /\ ticks' = ticks + 1
    /\ UNCHANGED <<plugin, status, particles, resources, pairLog, preWrap, integratedWith>>

(* lib.rs 131-138 *)
update_position ==
    /\ status = "running"
    /\ "update_position" \in pending
    /\ preWrap' = [i \in DOMAIN particles |-> Integrated(particles[i], delta)]
    /\ integratedWith' = [i \in DOMAIN particles |-> particles[i].velocity]
    /\ particles' = PositionPass(particles, delta)
    /\ pending' = pending \ {"update_position"}
    /\ UNCHANGED <<plugin, status, resources, delta, ticks, pairLog>>

(* lib.rs 140-171 *)
update_velocity ==
    /\ status = "running"
    /\ "update_velocity" \in pending
    /\ \E out \in {VelocityPass(particles, delta, resources.color_attractions,
                                 resources.attraction_radius.rmin,
                                 resources.attraction_radius.rmax)} :
           /\ particles' = out.particles
           /\ pairLog' = out.log
           /\ status' = IF out.panic THEN "tick_panic" ELSE "running"
    /\ pending' = pending \ {"update_velocity"}
    /\ UNCHANGED <<plugin, resources, delta, ticks, preWrap, integratedWith>>

Next ==
    \/ build
    \/ setup_mesh_and_color
    \/ \E dt \in 0..MaxDelta : BeginFrame(dt)
    \/ update_position
    \/ update_velocity

Spec == Init /\ [][Next]_vars

---------------------------------------------------------------------------
(* Properties *)

InDomain(position) ==
    /\ -ONE <= position.x /\ position.x < ONE
    /\ -ONE <= position.y /\ position.y < ONE

StartsInDomain ==
    \A i \in DOMAIN plugin.initial_particles :
        InDomain(plugin.initial_particles[i].position)

PositionPassRan == ticks >= 1 /\ "update_position" \notin pending

FrameDone == ticks >= 1 /\ pending = {}

Logged == { pairLog[k] : k \in DOMAIN pairLog }

RMin == resources.attraction_radius.rmin
RMax == resources.attraction_radius.rmax

(* C1: starting from positions in [-1, 1) x [-1, 1), once update_position has
   run every particle's position has both components in [-1, 1) *)
C1_PositionsStayInDomain ==
    (StartsInDomain /\ PositionPassRan) =>
        \A i \in DOMAIN particles : InDomain(particles[i].position)

(* C2: the position pass of a frame integrates every position with the
   velocity the same frame's velocity pass produced: at the end of a frame
   the velocity update_position read is the particle's velocity *)
C2_VelocityPassFirst ==
    (FrameDone /\ status = "running") =>
        \A i \in DOMAIN particles : integratedWith[i] = particles[i].velocity

BadRadii(r) == r.rmin <= 0 \/ r.rmax <= r.rmin

(* C3: a plugin whose radii have rmin <= 0 or rmax <= rmin never gets a
   frame run *)
C3_BadRadiiNeverTick ==
    BadRadii(plugin.attraction_radius) => ~FrameDone

(* C4: whenever a frame has started every particle's colour indexes the
   attraction matrix, and no frame panics on a matrix index *)
C4_ColorsIndexMatrix ==
    /\ ticks >= 1 =>
          \A i \in DOMAIN particles :
              /\ 0 <= particles[i].color
              /\ particles[i].color < Len(resources.color_attractions)
    /\ status # "tick_panic"

(* C5: from build on, the world holds as many particles as the plugin's
   initial_particles, whatever frames have run *)
C5_PopulationInvariant ==
    status # "new" => Len(particles) = Len(plugin.initial_particles)

C5_Witness ==
    /\ FrameDone
    /\ status = "running"
    /\ Len(particles) = MaxParticles
    /\ \E i \in DOMAIN particles :
          particles[i].position # plugin.initial_particles[i].position

(* C6: wrap is idempotent on every value the position pass wrapped:
   wrap(wrap(x)) = wrap(x) *)
C6_WrapIdempotent ==
    \A i \in DOMAIN preWrap :
        /\ wrap(wrap(preWrap[i].x)) = wrap(preWrap[i].x)
        /\ wrap(wrap(preWrap[i].y)) = wrap(preWrap[i].y)

(* C7: for every pair the velocity pass visited with both positions in
   [-1, 1) x [-1, 1), the difference is tip - base shifted by a multiple of
   2 to a magnitude of at most 1 on each axis, and the distance is the same
   in both directions *)
C7_ShortestDisplacement ==
    \A r \in Logged :
        (InDomain(r.position_a) /\ InDomain(r.position_b)) =>
            /\ Abs(r.difference.x) <= ONE
            /\ Abs(r.difference.y) <= ONE
            /\ (r.difference.x - (r.position_b.x - r.position_a.x)) % (2 * ONE) = 0
            /\ (r.difference.y - (r.position_b.y - r.position_a.y)) % (2 * ONE) = 0
            /\ toroidal_distance(r.position_a, r.position_b)
                  = toroidal_distance(r.position_b, r.position_a)

Zero == Vec2(0, 0)

Dot(u, v) == u.x * v.x + u.y * v.y

(* the pair's velocity increments are non-zero and push a against the a-to-b
   direction and b along it *)
PushedApart(r) ==
    /\ r.dva # Zero /\ Dot(r.dva, r.direction) < 0
    /\ r.dvb # Zero /\ Dot(r.dvb, r.direction) > 0
    /\ r.difference # Zero => Dot(r.direction, r.difference) > 0

(* C8 as stated: every pair visited with delta > 0 at a distance d <= rmin is
   pushed apart *)
C8_RepelledUpToRmin ==
    \A r \in Logged : (r.delta > 0 /\ r.distance <= RMin) => PushedApart(r)

(* C8 amended: every pair visited with delta > 0 at a distance d < rmin is
   pushed apart, and at d = rmin both velocities are left as they were *)
C8_RepelledInsideRmin ==
    \A r \in Logged :
        r.delta > 0 =>
            /\ r.distance < RMin => PushedApart(r)
            /\ r.distance = RMin => (r.dva = Zero /\ r.dvb = Zero)

C8_Witness ==
    /\ \E r \in Logged :
          r.delta > 0 /\ r.distance < RMin /\ r.difference = Zero
    /\ \E r \in Logged : r.delta > 0 /\ r.distance = RMin

(* C9: for a pair visited at rmin <= d <= rmax the attraction factors are 0
   at d = rmin and at d = rmax, and are the matrix entries' peaks at
   d = (rmin + rmax) / 2 *)
C9_PeaksHalfway ==
    \A r \in Logged :
        (0 < RMin /\ RMin < RMax /\ RMin <= r.distance /\ r.distance <= RMax) =>
            /\ (r.distance = RMin \/ r.distance = RMax) =>
                  (r.attraction_a_by_b = 0 /\ r.attraction_b_by_a = 0)
            /\ r.distance = (RMin + RMax) \div 2 =>
                  /\ r.attraction_a_by_b
                        = ONE * resources.color_attractions[r.color_a + 1][r.color_b + 1]
                  /\ r.attraction_b_by_a
                        = ONE * resources.color_attractions[r.color_b + 1][r.color_a + 1]

RECURSIVE Contribution(_, _, _)
(* the sum of the increments records k..Len(log) give particle i *)
Contribution(log, k, i) ==
    IF k > Len(log) THEN Zero
    ELSE LET rest == Contribution(log, k + 1, i)
             dv == IF log[k].a = i THEN log[k].dva
                   ELSE IF log[k].b = i THEN log[k].dvb
                   ELSE Zero
         IN  Vec2(dv.x + rest.x, dv.y + rest.y)

VelocityPassStep ==
    "update_velocity" \in pending /\ "update_velocity" \notin pending'

(* C10: a velocity pass leaves every position and colour as it was, and one
   that completes visits each unordered pair of distinct particles exactly
   once, computes each pair from the positions the pass started with, and
   adds to each velocity exactly the pairs' increments *)
C10_VelocityPassFrame ==
    [][VelocityPassStep =>
          /\ DOMAIN particles' = DOMAIN particles
          /\ \A i \in DOMAIN particles :
                /\ particles'[i].position = particles[i].position
                /\ particles'[i].color = particles[i].color
          /\ status' = "running" =>
                /\ \A a, b \in DOMAIN particles :
                      a < b =>
                          Cardinality({ k \in DOMAIN pairLog' :
                              {pairLog'[k].a, pairLog'[k].b} = {a, b} }) = 1
                /\ \A k \in DOMAIN pairLog' :
                      /\ pairLog'[k].a # pairLog'[k].b
                      /\ pairLog'[k].position_a = particles[pairLog'[k].a].position
                      /\ pairLog'[k].position_b = particles[pairLog'[k].b].position
                /\ \A i \in DOMAIN particles :
                      particles'[i].velocity
                          = LET c == Contribution(pairLog', 1, i)
                            IN  Vec2(particles[i].velocity.x + c.x,
                                     particles[i].velocity.y + c.y)
    ]_vars

C10_Witness ==
    /\ ticks >= 1
    /\ "update_velocity" \notin pending
    /\ status = "running"
    /\ Len(particles) = MaxParticles
    /\ Len(pairLog) = (MaxParticles * (MaxParticles - 1)) \div 2
    /\ \E r \in Logged : r.dva # Zero

====
